---- MODULE Spec2Model ----
(***************************************************************************)
(* The ServiceMaster ticket API (fastapi-service-master): the router, the  *)
(* service, the repository and the schemas, over a relational store.       *)
(*                                                                         *)
(* Each HTTP request is one action: body/query validation (422), the       *)
(* service call, the repository's statements and commit, and the           *)
(* serialisation of the answer through the response model.                 *)
(*                                                                         *)
(* A Python str is a sequence of one-character strings.  A value that may  *)
(* be absent or None is a tagged record: Unset(z) (key not in the body),   *)
(* Null(z) (JSON null / Python None) or Val(x); z is a zero of the type.   *)
(***************************************************************************)
EXTENDS Integers, Sequences, FiniteSets, TLC

VARIABLES
    dialect,    \* the store DATABASE_URL points at: "sqlite" or "postgresql"
    table,      \* rows of table ticket, in the order a scan without ORDER BY yields
    id_seq,     \* postgresql: last value of the id sequence (0 under sqlite)
    created,    \* history: ids of the stored tickets, in order of creation
    req,        \* history: the last request served
    resp,       \* history: the answer to it
    answered,   \* history: the create answers of the tickets not updated since
    tasks,      \* requests in flight, each with its own session
    config,     \* config.py: the environment and the cache of get_settings
    app,        \* main.py: the application's lifespan
    BOOKS,      \* books.py: the list BOOKS
    books_log   \* history: the last call served by books.py and its answer

vars == <<dialect, table, id_seq, created, req, resp, answered, tasks, config, app, BOOKS, books_log>>

------------------------------------------------------------------------------
(* Bounds of the model *)

MaxTickets == 1       \* rows the table holds at most
MaxId == 2            \* ids the store hands out at most
MaxCreateTickets == 1 \* rows at most in the creation scenario
MaxPageTickets == 4   \* rows at most in the paging scenario
MaxPageLimit == 3     \* largest page size asked for in the paging scenario
MaxLifeTickets == 2   \* rows at most in the life-cycle scenario
MaxLifeId == 3        \* ids handed out at most in the life-cycle scenario
MaxListTickets == 101 \* rows at most in the long-list scenario
MaxTasks == 2         \* requests in flight at most in the concurrent scenario
MaxConcTickets == 1   \* rows at most in the concurrent scenario
MaxSettingsCalls == 3
MaxBookCreates == 1     \* books created at most in the books scenario
MaxLifespanTickets == 2 \* rows at most in the process scenario
MaxLifespanId == 2 \* calls of get_settings at most in the settings scenario

------------------------------------------------------------------------------
(* Program constants *)

TITLE_MIN_LENGTH == 1
TITLE_MAX_LENGTH == 200
DESCRIPTION_MIN_LENGTH == 1
PRIORITY_MIN == 1
PRIORITY_MAX == 5
PRIORITY_DEFAULT == 1
PRIORITY_ESCALATED == 5
SKIP_DEFAULT == 0
SKIP_MIN == 0
LIMIT_DEFAULT == 100
LIMIT_MIN == 1
LIMIT_MAX == 100
HTTP_200_OK == 200
HTTP_201_CREATED == 201
HTTP_204_NO_CONTENT == 204
HTTP_404_NOT_FOUND == 404
HTTP_422_UNPROCESSABLE == 422
HTTP_500_INTERNAL_SERVER_ERROR == 500
ACCESS_TOKEN_EXPIRE_MINUTES_DEFAULT == 30

------------------------------------------------------------------------------
(* Optional values *)

Unset(z) == [k |-> "unset", v |-> z]
Null(z) == [k |-> "null", v |-> z]
Val(x) == [k |-> "val", v |-> x]

IsUnset(f) == f.k = "unset"
IsNone(f) == f.k = "null"
IsVal(f) == f.k = "val"

------------------------------------------------------------------------------
(* str.upper() and the substring test `a in b` *)

LowerLetters ==
    << "a", "b", "c", "d", "e", "f", "g", "h", "i", "j", "k", "l", "m",
       "n", "o", "p", "q", "r", "s", "t", "u", "v", "w", "x", "y", "z" >>

UpperLetters ==
    << "A", "B", "C", "D", "E", "F", "G", "H", "I", "J", "K", "L", "M",
       "N", "O", "P", "Q", "R", "S", "T", "U", "V", "W", "X", "Y", "Z" >>

upper_char(c) ==
    IF \E i \in DOMAIN LowerLetters : LowerLetters[i] = c
    THEN UpperLetters[CHOOSE i \in DOMAIN LowerLetters : LowerLetters[i] = c]
    ELSE c

upper(s) == [i \in 1..Len(s) |-> upper_char(s[i])]

str_in(needle, hay) ==
    \E i \in 0..(Len(hay) - Len(needle)) :
        SubSeq(hay, i + 1, i + Len(needle)) = needle

CRITICAL == << "C", "R", "I", "T", "I", "C", "A", "L" >>
URGENTE == << "U", "R", "G", "E", "N", "T", "E" >>

------------------------------------------------------------------------------
(* schemas.py *)

\* title: str = Field(..., min_length=1, max_length=200)
TicketBase_title(f) ==
    /\ IsVal(f)
    /\ Len(f.v) >= TITLE_MIN_LENGTH
    /\ Len(f.v) <= TITLE_MAX_LENGTH

\* description: str = Field(..., min_length=1)
TicketBase_description(f) ==
    /\ IsVal(f)
    /\ Len(f.v) >= DESCRIPTION_MIN_LENGTH

\* priority: Optional[int] = Field(default=1, ge=1, le=5): the bounds bind an
\* int; None is admitted by Optional, and an absent key takes the default.
TicketBase_priority(f) ==
    \/ IsUnset(f)
    \/ IsNone(f)
    \/ (IsVal(f) /\ f.v >= PRIORITY_MIN /\ f.v <= PRIORITY_MAX)

\* Whether a JSON body validates as TicketCreate (a key the schema does not
\* declare, is_completed, is ignored).
TicketCreate_validate(body) ==
    /\ TicketBase_title(body.title)
    /\ TicketBase_description(body.description)
    /\ TicketBase_priority(body.priority)

\* The TicketCreate object of a valid body.
TicketCreate(body) ==
    [ title |-> body.title.v,
      description |-> body.description.v,
      priority |-> IF IsUnset(body.priority) THEN Val(PRIORITY_DEFAULT)
                   ELSE body.priority ]

\* Variant of TicketUpdate whose priority carries no ge/le bounds.
TicketUpdate_validate_unbounded_priority(body) ==
    /\ (IsVal(body.title) =>
            /\ Len(body.title.v) >= TITLE_MIN_LENGTH
            /\ Len(body.title.v) <= TITLE_MAX_LENGTH)
    /\ (IsVal(body.description) =>
            Len(body.description.v) >= DESCRIPTION_MIN_LENGTH)

\* Whether a JSON body validates as TicketUpdate: every field is Optional,
\* the constraints bind values that are not None.
TicketUpdate_validate(body) ==
    /\ (IsVal(body.title) =>
            /\ Len(body.title.v) >= TITLE_MIN_LENGTH
            /\ Len(body.title.v) <= TITLE_MAX_LENGTH)
    /\ (IsVal(body.description) =>
            Len(body.description.v) >= DESCRIPTION_MIN_LENGTH)
    /\ (IsVal(body.priority) =>
            /\ body.priority.v >= PRIORITY_MIN
            /\ body.priority.v <= PRIORITY_MAX)

TicketFields == {"title", "description", "is_completed", "priority"}

\* Variant of the dump for a TicketUpdate that declared an id field.
model_dump_exclude_unset_with_id(body) ==
    {f \in TicketFields \cup {"id"} : ~IsUnset(body[f])}

\* ticket_data.model_dump(exclude_unset=True): the keys the body named, of
\* the fields TicketUpdate declares (a key it does not declare, id, is
\* dropped when the body is parsed).
model_dump_exclude_unset(body) == {f \in TicketFields : ~IsUnset(body[f])}

\* Variant of TicketRead whose priority is a plain int (None rejected).
TicketRead_validate_int_priority(t) ==
    /\ TicketBase_title(t.title)
    /\ TicketBase_description(t.description)
    /\ IsVal(t.priority)
    /\ t.priority.v >= PRIORITY_MIN
    /\ t.priority.v <= PRIORITY_MAX
    /\ IsVal(t.is_completed)

\* Whether a stored ticket validates as the response model TicketRead.
TicketRead_validate(t) ==
    /\ TicketBase_title(t.title)
    /\ TicketBase_description(t.description)
    /\ TicketBase_priority(t.priority)
    /\ IsVal(t.is_completed)

\* The JSON object TicketRead serialises a ticket to.
TicketRead(t) ==
    [ id |-> t.id,
      title |-> t.title,
      description |-> t.description,
      priority |-> t.priority,
      is_completed |-> t.is_completed ]

------------------------------------------------------------------------------
(* models.py: table ticket *)

\* Variant of the model whose is_completed defaults to True.
Ticket_completed_by_default(title, description, priority) ==
    [ id |-> 0,
      title |-> Val(title),
      description |-> Val(description),
      is_completed |-> Val(TRUE),
      priority |-> priority ]

\* The Ticket the service builds: id None until the store assigns one,
\* is_completed at its default.
Ticket(title, description, priority) ==
    [ id |-> 0,
      title |-> Val(title),
      description |-> Val(description),
      is_completed |-> Val(FALSE),
      priority |-> priority ]

\* Columns title, description and is_completed are NOT NULL (their
\* annotations are not Optional); priority is nullable.
NotNullViolation(t) ==
    \/ IsNone(t.title)
    \/ IsNone(t.description)
    \/ IsNone(t.is_completed)

------------------------------------------------------------------------------
(* repository.py and the store *)

Ids(tbl) == {tbl[i].id : i \in DOMAIN tbl}

Max(S) == CHOOSE x \in S : \A y \in S : y <= x
Min2(a, b) == IF a <= b THEN a ELSE b

\* The id the store assigns to an inserted row: SQLite's rowid is one more
\* than the largest rowid in the table, PostgreSQL draws from a sequence.
next_id(d, tbl, seq) ==
    IF d = "sqlite"
    THEN (IF tbl = <<>> THEN 1 ELSE Max(Ids(tbl)) + 1)
    ELSE seq + 1

\* session.add(ticket); commit(); refresh(ticket)
TicketRepository_create(d, tbl, seq, ticket) ==
    Append(tbl, [ticket EXCEPT !.id = next_id(d, tbl, seq)])

\* session.get(Ticket, ticket_id): the rows with that primary key (none or one)
TicketRepository_get_by_id(tbl, ticket_id) ==
    SelectSeq(tbl, LAMBDA r : r.id = ticket_id)

\* Variant of get_all whose statement has no .limit().
TicketRepository_get_all_unlimited(tbl, skip, limit) ==
    SubSeq(tbl, skip + 1, Len(tbl))

\* Variant of get_all that takes limit as the end index, not as a count.
TicketRepository_get_all_limit_as_end(tbl, skip, limit) ==
    SubSeq(tbl, skip + 1, Min2(limit, Len(tbl)))

\* select(Ticket).offset(skip).limit(limit)
TicketRepository_get_all(tbl, skip, limit) ==
    SubSeq(tbl, skip + 1, Min2(skip + limit, Len(tbl)))

Remove(tbl, ticket_id) == SelectSeq(tbl, LAMBDA r : r.id # ticket_id)

\* session.add(ticket); commit(): the tables the UPDATE can leave.  The
\* statement has no ORDER BY to pin the row's place in a later scan: SQLite
\* scans by rowid; PostgreSQL writes a new row version, which a heap scan
\* meets in the old place or after the other rows.
TicketRepository_update(d, tbl, ticket) ==
    LET inplace == [i \in DOMAIN tbl |->
                        IF tbl[i].id = ticket.id THEN ticket ELSE tbl[i]]
        moved == Append(Remove(tbl, ticket.id), ticket)
    IN  IF d = "postgresql" /\ inplace # tbl
        THEN {inplace, moved}
        ELSE {inplace}

\* Variant of delete whose DELETE has no WHERE clause.
TicketRepository_delete_without_where(tbl, ticket) == <<>>

\* Variant of delete that never commits: the row stays.
TicketRepository_delete_uncommitted(tbl, ticket) == tbl

\* session.delete(ticket); commit()
TicketRepository_delete(tbl, ticket) == Remove(tbl, ticket.id)

------------------------------------------------------------------------------
(* service.py *)

\* Variant of create_ticket that tests the title as typed, without upper().
TicketService_create_ticket_case_sensitive(ticket_data) ==
    LET priority ==
            IF \/ str_in(CRITICAL, ticket_data.title)
               \/ str_in(URGENTE, ticket_data.title)
            THEN Val(PRIORITY_ESCALATED)
            ELSE ticket_data.priority
    IN  Ticket(ticket_data.title, ticket_data.description, priority)

\* Variant of create_ticket that tests for "CRITICAL" only.
TicketService_create_ticket_critical_only(ticket_data) ==
    LET priority ==
            IF str_in(CRITICAL, upper(ticket_data.title))
            THEN Val(PRIORITY_ESCALATED)
            ELSE ticket_data.priority
    IN  Ticket(ticket_data.title, ticket_data.description, priority)

\* Variant of create_ticket that builds the Ticket without the request's
\* priority, leaving the column default.
TicketService_create_ticket_drops_priority(ticket_data) ==
    LET priority ==
            IF \/ str_in(CRITICAL, upper(ticket_data.title))
               \/ str_in(URGENTE, upper(ticket_data.title))
            THEN Val(PRIORITY_ESCALATED)
            ELSE Val(PRIORITY_DEFAULT)
    IN  Ticket(ticket_data.title, ticket_data.description, priority)

\* The Ticket create_ticket hands to the repository.
TicketService_create_ticket(ticket_data) ==
    LET priority ==
            IF \/ str_in(CRITICAL, upper(ticket_data.title))
               \/ str_in(URGENTE, upper(ticket_data.title))
            THEN Val(PRIORITY_ESCALATED)
            ELSE ticket_data.priority
    IN  Ticket(ticket_data.title, ticket_data.description, priority)

\* get_ticket raises HTTPException(404) when the repository finds no row.
TicketService_get_ticket_raises(tbl, ticket_id) ==
    TicketRepository_get_by_id(tbl, ticket_id) = <<>>

\* Variant of get_ticket that answers with the first row of the table.
TicketService_get_ticket_first_row(tbl, ticket_id) == tbl[1]

TicketService_get_ticket(tbl, ticket_id) ==
    TicketRepository_get_by_id(tbl, ticket_id)[1]

\* Variant of update_ticket that re-applies the creation rule to a new title.
TicketService_update_ticket_escalates(ticket, body) ==
    LET update_data == model_dump_exclude_unset(body)
        attr(f) == IF f \in update_data THEN body[f] ELSE ticket[f]
        escalate ==
            /\ IsVal(body.title)
            /\ \/ str_in(CRITICAL, upper(body.title.v))
               \/ str_in(URGENTE, upper(body.title.v))
    IN  [ id |-> ticket.id,
          title |-> attr("title"),
          description |-> attr("description"),
          is_completed |-> attr("is_completed"),
          priority |-> IF escalate THEN Val(PRIORITY_ESCALATED)
                       ELSE attr("priority") ]

\* update_ticket's loop: setattr(ticket, field, value) for the dumped keys.
TicketService_update_ticket(ticket, body) ==
    LET update_data == model_dump_exclude_unset(body)
        attr(f) == IF f \in update_data THEN body[f] ELSE ticket[f]
    IN  [ id |-> IF "id" \in update_data THEN body.id.v ELSE ticket.id,
          title |-> attr("title"),
          description |-> attr("description"),
          is_completed |-> attr("is_completed"),
          priority |-> attr("priority") ]

------------------------------------------------------------------------------
(* Requests and answers *)

NoBody ==
    [ id |-> Unset(0),
      title |-> Unset(<<>>),
      description |-> Unset(<<>>),
      is_completed |-> Unset(FALSE),
      priority |-> Unset(0) ]

Request(op, ticket_id, body, skip, limit) ==
    [op |-> op, id |-> ticket_id, body |-> body, skip |-> skip, limit |-> limit]

NoDetail == << >>

Digits == << "0", "1", "2", "3", "4", "5", "6", "7", "8", "9" >>

\* str(n) of an int, as f"{ticket_id}" renders it
RECURSIVE str_int(_)
str_int(n) ==
    IF n < 0 THEN << "-" >> \o str_int(0 - n)
    ELSE IF n < 10 THEN << Digits[n + 1] >>
    ELSE str_int(n \div 10) \o << Digits[(n % 10) + 1] >>

\* detail=f"Ticket with id {ticket_id} not found"
NotFoundDetail(ticket_id) ==
    << "T", "i", "c", "k", "e", "t", " ", "w", "i", "t", "h", " ", "i", "d", " " >>
    \o str_int(ticket_id)
    \o << " ", "n", "o", "t", " ", "f", "o", "u", "n", "d" >>

Response(status, body, detail) ==
    [status |-> status, body |-> body, detail |-> detail]

\* Variant of get_ticket's exception with another status code.
NotFound_as_bad_request(ticket_id) ==
    Response(400, <<>>, NotFoundDetail(ticket_id))

NotFound(ticket_id) ==
    Response(HTTP_404_NOT_FOUND, <<>>, NotFoundDetail(ticket_id))

ValidationError == Response(HTTP_422_UNPROCESSABLE, <<>>, NoDetail)

ServerError == Response(HTTP_500_INTERNAL_SERVER_ERROR, <<>>, NoDetail)

\* response_model=TicketRead / list[TicketRead]: the handler's return value
\* is validated and serialised; a value the model rejects is a server error.
Serialize(status, tickets) ==
    IF \A i \in DOMAIN tickets : TicketRead_validate(tickets[i])
    THEN Response(status, [i \in DOMAIN tickets |-> TicketRead(tickets[i])],
                  NoDetail)
    ELSE ServerError

------------------------------------------------------------------------------
(* router.py: one action per endpoint *)

\* POST /tickets/
router_create_ticket(bodies, max_rows, max_id) ==
    \E ticket_in \in bodies :
        /\ req' = Request("create", 0, ticket_in, Unset(0), Unset(0))
        /\ IF ~TicketCreate_validate(ticket_in)
           THEN /\ resp' = ValidationError
                /\ UNCHANGED <<dialect, table, id_seq, created>>
           ELSE LET ticket_db ==
                        TicketService_create_ticket(TicketCreate(ticket_in))
                    new_table ==
                        TicketRepository_create(dialect, table, id_seq, ticket_db)
                    ticket == new_table[Len(new_table)]
                IN  /\ Len(table) < max_rows
                    /\ ticket.id <= max_id
                    /\ table' = new_table
                    /\ id_seq' = IF dialect = "sqlite" THEN id_seq ELSE ticket.id
                    /\ created' = Append(created, ticket.id)
                    /\ resp' = Serialize(HTTP_201_CREATED, <<ticket>>)
                    /\ UNCHANGED dialect

\* GET /tickets/?skip=&limit=
router_get_all_tickets(skips, limits) ==
    \E skip_in \in skips, limit_in \in limits :
        LET skip == IF IsUnset(skip_in) THEN SKIP_DEFAULT ELSE skip_in.v
            limit == IF IsUnset(limit_in) THEN LIMIT_DEFAULT ELSE limit_in.v
        IN  /\ req' = Request("list", 0, NoBody, skip_in, limit_in)
            /\ resp' =
                 IF skip < SKIP_MIN \/ limit < LIMIT_MIN \/ limit > LIMIT_MAX
                 THEN ValidationError
                 ELSE Serialize(HTTP_200_OK,
                                TicketRepository_get_all(table, skip, limit))
            /\ UNCHANGED <<dialect, table, id_seq, created>>

\* GET /tickets/{ticket_id}
router_get_ticket(ids) ==
    \E ticket_id \in ids :
        /\ req' = Request("get", ticket_id, NoBody, Unset(0), Unset(0))
        /\ resp' =
             IF TicketService_get_ticket_raises(table, ticket_id)
             THEN NotFound(ticket_id)
             ELSE Serialize(HTTP_200_OK,
                            <<TicketService_get_ticket(table, ticket_id)>>)
        /\ UNCHANGED <<dialect, table, id_seq, created>>

\* PUT /tickets/{ticket_id}
router_update_ticket(ids, bodies) ==
    \E ticket_id \in ids, ticket_in \in bodies :
        /\ req' = Request("update", ticket_id, ticket_in, Unset(0), Unset(0))
        /\ UNCHANGED <<dialect, id_seq, created>>
        /\ IF ~TicketUpdate_validate(ticket_in)
           THEN resp' = ValidationError /\ UNCHANGED table
           ELSE IF TicketService_get_ticket_raises(table, ticket_id)
           THEN resp' = NotFound(ticket_id) /\ UNCHANGED table
           ELSE LET ticket ==
                        TicketService_update_ticket(
                            TicketService_get_ticket(table, ticket_id), ticket_in)
                IN  IF NotNullViolation(ticket)
                    \* commit() raises IntegrityError; nothing is written
                    THEN resp' = ServerError /\ UNCHANGED table
                    ELSE /\ table' \in TicketRepository_update(dialect, table, ticket)
                         /\ resp' = Serialize(HTTP_200_OK, <<ticket>>)

\* DELETE /tickets/{ticket_id}
router_delete_ticket(ids) ==
    \E ticket_id \in ids :
        /\ req' = Request("delete", ticket_id, NoBody, Unset(0), Unset(0))
        /\ UNCHANGED <<dialect, id_seq>>
        /\ IF TicketService_get_ticket_raises(table, ticket_id)
           THEN resp' = NotFound(ticket_id) /\ UNCHANGED <<table, created>>
           ELSE LET ticket == TicketService_get_ticket(table, ticket_id)
                IN  /\ table' = TicketRepository_delete(table, ticket)
                    /\ created' = SelectSeq(created, LAMBDA i : i # ticket_id)
                    /\ resp' = Response(HTTP_204_NO_CONTENT, <<>>, NoDetail)

------------------------------------------------------------------------------
(* config.py *)

\* Settings(): the fields read from the environment (DATABASE_URL and
\* SECRET_KEY are required; the others have defaults); n tells one Settings
\* object from another.
Settings(env, n) ==
    [ object |-> n,
      DATABASE_URL |-> env.DATABASE_URL,
      SECRET_KEY |-> env.SECRET_KEY,
      ACCESS_TOKEN_EXPIRE_MINUTES |->
          IF IsUnset(env.ACCESS_TOKEN_EXPIRE_MINUTES)
          THEN ACCESS_TOKEN_EXPIRE_MINUTES_DEFAULT
          ELSE env.ACCESS_TOKEN_EXPIRE_MINUTES.v,
      DEBUG_MODE |-> IF IsUnset(env.DEBUG_MODE) THEN FALSE
                     ELSE env.DEBUG_MODE.v ]

\* Variant of get_settings without @lru_cache.
get_settings_uncached(cfg, caller) ==
    LET obj == Settings(cfg.env, cfg.built + 1)
    IN  [cfg EXCEPT !.cache = <<obj>>,
                    !.built = @ + 1,
                    !.returned = Append(@, [caller |-> caller, settings |-> obj])]

\* @lru_cache def get_settings(): on a miss Settings() is built from the
\* environment and kept; on a hit the kept object is returned.
get_settings(cfg, caller) ==
    IF cfg.cache = <<>>
    THEN LET obj == Settings(cfg.env, cfg.built + 1)
         IN  [cfg EXCEPT !.cache = <<obj>>,
                         !.built = @ + 1,
                         !.returned =
                             Append(@, [caller |-> caller, settings |-> obj])]
    ELSE [cfg EXCEPT !.returned =
                         Append(@, [caller |-> caller, settings |-> cfg.cache[1]])]

\* The environment the process starts in, for a store.
StartEnv(d) ==
    [ DATABASE_URL |-> d,
      SECRET_KEY |-> "k1",
      ACCESS_TOKEN_EXPIRE_MINUTES |-> Unset(0),
      DEBUG_MODE |-> Unset(FALSE) ]

\* The process at its start: nothing cached, no Settings built.
StartConfig(d) ==
    [ env |-> StartEnv(d), cache |-> <<>>, built |-> 0, returned |-> <<>> ]

------------------------------------------------------------------------------
(* Requests in flight: database.py's session per request, and the steps of  *)
(* a handler between its awaits                                             *)

Tasks == 1..MaxTasks

\* A request that has not arrived yet.
IdleTask ==
    [ pc |-> "idle", op |-> "none", id |-> 0, body |-> NoBody,
      session |-> 0, open |-> FALSE, loaded |-> <<>>,
      commit_no |-> 0, committed |-> FALSE,
      resp |-> Response(0, <<>>, NoDetail) ]

\* AsyncSessionLocal(): a new AsyncSession at every call.
AsyncSessionLocal(ts) == Max({ts[t].session : t \in DOMAIN ts}) + 1

\* Variant of get_db_session that closes the session after the yield without
\* `async with` or `finally`: an exception thrown into the generator skips it.
get_db_session_exit_on_return_only(task) ==
    [task EXCEPT !.pc = "done",
                 !.open = (task.resp.status >= 400)]

\* get_db_session after the yield: `finally: await session.close()` and the
\* exit of `async with`, whatever the handler returned or raised.
get_db_session_exit(task) ==
    [task EXCEPT !.pc = "done", !.open = FALSE]

\* Variant of the unit of work that writes every column of the object.
AsyncSession_dirty_all_columns(loaded, ticket) == TicketFields

\* The attributes the unit of work finds changed at flush: those whose
\* value differs from the value the session loaded.
AsyncSession_dirty(loaded, ticket) ==
    {f \in TicketFields : ticket[f] # loaded[f]}

\* Variant of the flush that inserts the row when the UPDATE matched none
\* (session.merge in place of session.add).
AsyncSession_flush_upsert(d, tbl, loaded, ticket) ==
    LET dirty == AsyncSession_dirty(loaded, ticket)
        row == IF ticket.id \in Ids(tbl)
               THEN CHOOSE r \in {tbl[i] : i \in DOMAIN tbl} : r.id = ticket.id
               ELSE loaded
        written == [f \in DOMAIN ticket |->
                        IF f \in dirty THEN ticket[f] ELSE row[f]]
    IN  IF dirty = {} THEN [error |-> FALSE, tables |-> {tbl}]
        ELSE IF NotNullViolation(ticket) THEN [error |-> TRUE, tables |-> {tbl}]
        ELSE IF ticket.id \notin Ids(tbl)
        THEN [error |-> FALSE, tables |-> {Append(tbl, written)}]
        ELSE [error |-> FALSE,
              tables |-> TicketRepository_update(d, tbl, written)]

\* session.add(ticket); commit(): the flush of a loaded object.  Nothing is
\* sent when no attribute changed; otherwise UPDATE ticket SET <the changed
\* columns> WHERE id = ..., which raises IntegrityError on a NULL in a NOT
\* NULL column and StaleDataError when it matches no row.
AsyncSession_flush(d, tbl, loaded, ticket) ==
    LET dirty == AsyncSession_dirty(loaded, ticket)
        row == IF ticket.id \in Ids(tbl)
               THEN CHOOSE r \in {tbl[i] : i \in DOMAIN tbl} : r.id = ticket.id
               ELSE loaded
        written == [f \in DOMAIN ticket |->
                        IF f \in dirty THEN ticket[f] ELSE row[f]]
    IN  IF dirty = {} THEN [error |-> FALSE, tables |-> {tbl}]
        ELSE IF NotNullViolation(ticket) THEN [error |-> TRUE, tables |-> {tbl}]
        ELSE IF ticket.id \notin Ids(tbl) THEN [error |-> TRUE, tables |-> {tbl}]
        ELSE [error |-> FALSE,
              tables |-> TicketRepository_update(d, tbl, written)]

\* The number the next call of commit() gets, in the order of the calls.
next_commit_no(ts) == Max({ts[t].commit_no : t \in DOMAIN ts}) + 1

\* A request arrives: FastAPI resolves the handler's dependencies, which
\* enters get_db_session (a session is created and yielded), and validates
\* the body; a body that fails is answered 422 without calling the handler.
\* The requests are numbered in the order they arrive.
request_start(ops, ids, bodies) ==
    \E t \in Tasks, op \in ops, ticket_id \in ids, ticket_in \in bodies :
        LET body == IF op = "update" THEN ticket_in ELSE NoBody
            invalid == op = "update" /\ ~TicketUpdate_validate(body)
        IN  /\ tasks[t].pc = "idle"
            /\ \A u \in Tasks : u < t => tasks[u].pc # "idle"
            /\ tasks' = [tasks EXCEPT ![t] =
                   [@ EXCEPT !.pc = IF invalid THEN "exit" ELSE "get",
                             !.op = op, !.id = ticket_id, !.body = body,
                             !.session = AsyncSessionLocal(tasks),
                             !.open = TRUE,
                             !.resp = IF invalid THEN ValidationError ELSE @]]
            /\ UNCHANGED <<dialect, table, id_seq, created, req, resp,
                           answered, config, app, BOOKS, books_log>>

\* service.get_ticket: await repo.get_by_id (a SELECT through the request's
\* session); HTTPException(404) when there is no row.  get_ticket answers
\* with the row; update_ticket goes on to setattr, which does not await.
request_get(t) ==
    LET task == tasks[t]
        rows == TicketRepository_get_by_id(table, task.id)
    IN  /\ task.pc = "get"
        /\ tasks' = [tasks EXCEPT ![t] =
               IF rows = <<>>
               THEN [task EXCEPT !.pc = "exit", !.resp = NotFound(task.id)]
               ELSE IF task.op = "get"
               THEN [task EXCEPT !.pc = "exit", !.loaded = rows,
                                 !.resp = Serialize(HTTP_200_OK, rows)]
               ELSE [task EXCEPT !.pc = "commit", !.loaded = rows]]
        /\ UNCHANGED <<dialect, table, id_seq, created, req, resp,
                       answered, config, app, BOOKS, books_log>>

\* repo.update: session.add(ticket); await session.commit()
request_commit_update(t) ==
    LET task == tasks[t]
        ticket == TicketService_update_ticket(task.loaded[1], task.body)
        flush == AsyncSession_flush(dialect, table, task.loaded[1], ticket)
    IN  /\ task.pc = "commit"
        /\ task.op = "update"
        /\ table' \in flush.tables
        /\ tasks' = [tasks EXCEPT ![t] =
               IF flush.error
               THEN [task EXCEPT !.pc = "exit", !.resp = ServerError,
                                 !.commit_no = next_commit_no(tasks)]
               ELSE [task EXCEPT !.pc = "refresh", !.committed = TRUE,
                                 !.commit_no = next_commit_no(tasks)]]
        /\ UNCHANGED <<dialect, id_seq, created, req, resp, answered, config, app, BOOKS, books_log>>

\* repo.update: await session.refresh(ticket), a SELECT of the row, which
\* raises InvalidRequestError when the row is gone; then the answer.
request_refresh(t) ==
    LET task == tasks[t]
        rows == TicketRepository_get_by_id(table, task.id)
    IN  /\ task.pc = "refresh"
        /\ tasks' = [tasks EXCEPT ![t] =
               IF rows = <<>>
               THEN [task EXCEPT !.pc = "exit", !.resp = ServerError]
               ELSE [task EXCEPT !.pc = "exit",
                                 !.resp = Serialize(HTTP_200_OK, rows)]]
        /\ UNCHANGED <<dialect, table, id_seq, created, req, resp,
                       answered, config, app, BOOKS, books_log>>

\* repo.delete: await session.delete(ticket); await session.commit().  A
\* DELETE that matches no row is a warning, not an error.
request_commit_delete(t) ==
    LET task == tasks[t]
    IN  /\ task.pc = "commit"
        /\ task.op = "delete"
        /\ table' = TicketRepository_delete(table, task.loaded[1])
        /\ created' = SelectSeq(created, LAMBDA i : i # task.id)
        /\ tasks' = [tasks EXCEPT ![t] =
               [task EXCEPT !.pc = "exit", !.committed = TRUE,
                            !.commit_no = next_commit_no(tasks),
                            !.resp = Response(HTTP_204_NO_CONTENT, <<>>, NoDetail)]]
        /\ UNCHANGED <<dialect, id_seq, req, resp, answered, config, app, BOOKS, books_log>>

\* The request ends: the answer is sent and the dependency's exit code runs.
request_end(t) ==
    /\ tasks[t].pc = "exit"
    /\ tasks' = [tasks EXCEPT ![t] = get_db_session_exit(tasks[t])]
    /\ UNCHANGED <<dialect, table, id_seq, created, req, resp, answered, config, app, BOOKS, books_log>>

------------------------------------------------------------------------------
(* main.py: the application and its lifespan *)

\* The application object as main.py builds it: not started.
CreatedApp == [phase |-> "created", schema |-> FALSE, disposed |-> FALSE]

\* database.py: create_all on the engine; dispose of the engine's pool.
create_db_and_tables(a) == [a EXCEPT !.schema = TRUE]
close_db_connection(a) == [a EXCEPT !.disposed = TRUE]

\* Variant of lifespan that yields before the tables are created.
lifespan_startup_yield_first(a) == [a EXCEPT !.phase = "serving"]

\* lifespan up to its yield: await create_db_and_tables(), then the
\* application serves.
lifespan_startup(a) == [create_db_and_tables(a) EXCEPT !.phase = "serving"]

\* lifespan whose create_db_and_tables raised: nothing after it runs and
\* the server gives up.
lifespan_startup_failed(a) == [a EXCEPT !.phase = "stopped"]

\* lifespan after its yield: await close_db_connection() disposes the
\* engine's connection pool.
lifespan_shutdown(a) == [close_db_connection(a) EXCEPT !.phase = "stopped"]

------------------------------------------------------------------------------
(* books.py *)

\* str.casefold() of the letters the model's strings are made of.
casefold(s) ==
    [i \in 1..Len(s) |->
        IF \E k \in DOMAIN UpperLetters : UpperLetters[k] = s[i]
        THEN LowerLetters[CHOOSE k \in DOMAIN UpperLetters :
                              UpperLetters[k] = s[i]]
        ELSE s[i]]

\* A book is a dict; a key it lacks is unset (dict.get answers None).
Book(title, author, pages, rating, category) ==
    [ Title |-> title, Author |-> author, Pages |-> pages, Rating |-> rating,
      Category |-> category ]

\* The list BOOKS as the module defines it.
BOOKS_initial ==
    <<
       Book(Val(<< "H", "a", "r", "r", "y", " ", "P", "o", "t", "t", "e", "r" >>),
            Val(<< "A", "u", "t", "h", "o", "r", " ", "O", "n", "e" >>),
            150, "4.5",
            Val(<< "F", "i", "c", "t", "i", "o", "n" >>)),
       Book(Val(<< "T", "i", "t", "l", "e", " ", "T", "w", "o" >>),
            Val(<< "A", "u", "t", "h", "o", "r", " ", "T", "w", "o" >>),
            200, "4.0",
            Val(<< "N", "o", "n", "-", "F", "i", "c", "t", "i", "o", "n" >>)),
       Book(Val(<< "T", "i", "t", "l", "e", " ", "T", "h", "r", "e", "e" >>),
            Val(<< "A", "u", "t", "h", "o", "r", " ", "T", "h", "r", "e", "e" >>),
            300, "4.8",
            Val(<< "S", "c", "i", "e", "n", "c", "e", " ", "F", "i", "c", "t", "i", "o", "n" >>)),
       Book(Val(<< "T", "i", "t", "l", "e", " ", "F", "o", "u", "r" >>),
            Val(<< "A", "u", "t", "h", "o", "r", " ", "F", "o", "u", "r" >>),
            250, "3.9",
            Val(<< "F", "a", "n", "t", "a", "s", "y" >>)),
       Book(Val(<< "T", "i", "t", "l", "e", " ", "F", "i", "v", "e" >>),
            Val(<< "A", "u", "t", "h", "o", "r", " ", "F", "i", "v", "e" >>),
            180, "4.2",
            Val(<< "F", "i", "c", "t", "i", "o", "n" >>))
    >>

\* Messages of the answers.
Book_created == << "B", "o", "o", "k", " ", "c", "r", "e", "a", "t", "e", "d" >>
Book_not_found == << "B", "o", "o", "k", " ", "n", "o", "t", " ", "f", "o", "u", "n", "d" >>
Book_deleted(title) ==
    << "B", "o", "o", "k", " " >> \o title \o << " ", "d", "e", "l", "e", "t", "e", "d" >>

\* The answer of a call and the list it leaves: kind is "null", "book",
\* "list", "message" or "error".
BooksAnswer(status, kind, answer, message, books) ==
    [ status |-> status, kind |-> kind, answer |-> answer,
      message |-> message, books |-> books ]

\* An exception in a handler (None has no casefold) is a server error.
BooksError(books) ==
    BooksAnswer(HTTP_500_INTERNAL_SERVER_ERROR, "error", <<>>, <<>>, books)

\* The first of the indices at which a loop over the list stops, or one
\* past the end of the list when it stops at none.
first_index(books, stops) ==
    IF stops = {} THEN Len(books) + 1
    ELSE CHOOSE i \in stops : \A j \in stops : i <= j

\* dict.get(key) answers None for a missing key and for a null value, and
\* None has no casefold: the handlers below raise where a key they read is
\* not a value.

\* GET /books
read_all_books(books) ==
    BooksAnswer(HTTP_200_OK, "list", books, <<>>, books)

\* GET /api-endpoint
first_api(books) ==
    BooksAnswer(HTTP_200_OK, "message", <<>>,
                << "H", "o", "l", "a", " ", "m", "u", "n", "d", "o" >>, books)

\* The loop of read_book: the first book whose Title matches is returned; a
\* book without a Title met before it raises; falling off the loop
\* returns None.
read_book(books, book_title) ==
    LET e == first_index(books, {i \in DOMAIN books : ~IsVal(books[i].Title)})
        m == first_index(books, {i \in DOMAIN books :
                 /\ IsVal(books[i].Title)
                 /\ casefold(books[i].Title.v) = casefold(book_title)})
    IN  IF e < m THEN BooksError(books)
        ELSE IF m <= Len(books)
        THEN BooksAnswer(HTTP_200_OK, "book", << books[m] >>, <<>>, books)
        ELSE BooksAnswer(HTTP_200_OK, "null", <<>>, <<>>, books)

\* GET /books/?category=
read_category_by_query(books, category) ==
    IF \E i \in DOMAIN books : ~IsVal(books[i].Category)
    THEN BooksError(books)
    ELSE BooksAnswer(HTTP_200_OK, "list",
             SelectSeq(books, LAMBDA b :
                 casefold(b.Category.v) = casefold(category)),
             <<>>, books)

\* GET /books/byauthor/?author=
read_books_by_author_query(books, author) ==
    IF \E i \in DOMAIN books : ~IsVal(books[i].Author)
    THEN BooksError(books)
    ELSE BooksAnswer(HTTP_200_OK, "list",
             SelectSeq(books, LAMBDA b :
                 casefold(b.Author.v) = casefold(author)),
             <<>>, books)

\* The handler of the second GET /books/{...} route: `and` evaluates the
\* Category only of a book whose Author matches.
read_book_by_author_path_by_category_query(books, book_author, category) ==
    IF \E i \in DOMAIN books :
          \/ ~IsVal(books[i].Author)
          \/ /\ casefold(books[i].Author.v) = casefold(book_author)
             /\ ~IsVal(books[i].Category)
    THEN BooksError(books)
    ELSE BooksAnswer(HTTP_200_OK, "list",
             SelectSeq(books, LAMBDA b :
                 /\ casefold(b.Author.v) = casefold(book_author)
                 /\ casefold(b.Category.v) = casefold(category)),
             <<>>, books)

\* POST /books/create: the body, whatever it holds, is appended.
create_book(books, new_book) ==
    BooksAnswer(HTTP_200_OK, "message", <<>>, Book_created,
                Append(books, new_book))

\* PUT /books/update: each turn of the loop takes the casefold of the
\* book's Title and then of the body's Title.
update_book(books, updated_book) ==
    LET e == IF IsVal(updated_book.Title)
             THEN first_index(books, {i \in DOMAIN books : ~IsVal(books[i].Title)})
             ELSE 1
        m == IF IsVal(updated_book.Title)
             THEN first_index(books, {i \in DOMAIN books :
                      /\ IsVal(books[i].Title)
                      /\ casefold(books[i].Title.v) = casefold(updated_book.Title.v)})
             ELSE Len(books) + 1
    IN  IF e <= Len(books) /\ e < m THEN BooksError(books)
        ELSE IF m <= Len(books)
        THEN BooksAnswer(HTTP_200_OK, "message", <<>>,
                         << "B", "o", "o", "k", " ", "u", "p", "d", "a", "t", "e", "d" >>,
                         [books EXCEPT ![m] = updated_book])
        ELSE BooksAnswer(HTTP_200_OK, "message", <<>>, Book_not_found, books)

\* DELETE /books/delete/{title}
delete_book(books, title) ==
    LET e == first_index(books, {i \in DOMAIN books : ~IsVal(books[i].Title)})
        m == first_index(books, {i \in DOMAIN books :
                 /\ IsVal(books[i].Title)
                 /\ casefold(books[i].Title.v) = casefold(title)})
    IN  IF e < m THEN BooksError(books)
        ELSE IF m <= Len(books)
        THEN BooksAnswer(HTTP_200_OK, "message", <<>>, Book_deleted(title),
                         SubSeq(books, 1, m - 1)
                             \o SubSeq(books, m + 1, Len(books)))
        ELSE BooksAnswer(HTTP_200_OK, "message", <<>>, Book_not_found, books)

\* Path segments of the routes; a path is the sequence of its segments and
\* a trailing slash is an empty last segment.
Seg ==
    [ books |-> << "b", "o", "o", "k", "s" >>,
      byauthor |-> << "b", "y", "a", "u", "t", "h", "o", "r" >>,
      api_endpoint |-> << "a", "p", "i", "-", "e", "n", "d", "p", "o", "i", "n", "t" >>,
      create |-> << "c", "r", "e", "a", "t", "e" >>,
      update |-> << "u", "p", "d", "a", "t", "e" >>,
      delete |-> << "d", "e", "l", "e", "t", "e" >> ]

\* A route's pattern is a sequence of literal segments (values) and path
\* parameters (unset).

\* The GET routes in the order the decorators register them.
GetRoutes ==
    << [endpoint |-> "first_api", pattern |-> << Val(Seg.api_endpoint) >>],
       [endpoint |-> "read_all_books", pattern |-> << Val(Seg.books) >>],
       [endpoint |-> "read_book", pattern |-> << Val(Seg.books), Unset(<<>>) >>],
       [endpoint |-> "read_category_by_query",
        pattern |-> << Val(Seg.books), Val(<<>>) >>],
       [endpoint |-> "read_books_by_author_query",
        pattern |-> << Val(Seg.books), Val(Seg.byauthor), Val(<<>>) >>],
       [endpoint |-> "read_book_by_author_path_by_category_query",
        pattern |-> << Val(Seg.books), Unset(<<>>) >>] >>

\* A path parameter matches one segment that is not empty.
route_matches(pattern, path) ==
    /\ Len(pattern) = Len(path)
    /\ \A i \in DOMAIN pattern :
          IF IsUnset(pattern[i]) THEN path[i] # <<>>
          ELSE path[i] = pattern[i].v

\* The router answers with the first route that matches, 0 for none.
match_route(routes, path) ==
    IF \E r \in DOMAIN routes : route_matches(routes[r].pattern, path)
    THEN CHOOSE r \in DOMAIN routes :
             /\ route_matches(routes[r].pattern, path)
             /\ \A q \in 1..(r - 1) : ~route_matches(routes[q].pattern, path)
    ELSE 0

\* The name of the handler a GET of the path runs.
get_endpoint(path) ==
    IF match_route(GetRoutes, path) = 0 THEN "none"
    ELSE GetRoutes[match_route(GetRoutes, path)].endpoint

\* A GET request: routing, then the required query parameters, then the
\* handler.
books_get(books, path, query) ==
    LET endpoint == get_endpoint(path) IN
    CASE endpoint = "none" -> BooksAnswer(HTTP_404_NOT_FOUND, "error", <<>>, <<>>, books)
      [] endpoint = "first_api" -> first_api(books)
      [] endpoint = "read_all_books" -> read_all_books(books)
      [] endpoint = "read_book" -> read_book(books, path[2])
      [] endpoint = "read_category_by_query" ->
            IF IsVal(query.category)
            THEN read_category_by_query(books, query.category.v)
            ELSE BooksAnswer(HTTP_422_UNPROCESSABLE, "error", <<>>, <<>>,
                             books)
      [] endpoint = "read_books_by_author_query" ->
            IF IsVal(query.author)
            THEN read_books_by_author_query(books, query.author.v)
            ELSE BooksAnswer(HTTP_422_UNPROCESSABLE, "error", <<>>, <<>>,
                             books)
      [] endpoint = "read_book_by_author_path_by_category_query" ->
            IF IsVal(query.category)
            THEN read_book_by_author_path_by_category_query(
                     books, path[2], query.category.v)
            ELSE BooksAnswer(HTTP_422_UNPROCESSABLE, "error", <<>>, <<>>,
                             books)

\* No call served yet.
NoBooksLog ==
    [ method |-> "none", path |-> <<>>, query |-> <<>>, body |-> <<>>,
      endpoint |-> "none", status |-> 0, kind |-> "none", answer |-> <<>>,
      message |-> <<>>, creates |-> 0, deletes |-> 0 ]

------------------------------------------------------------------------------
(* Inputs: the titles, descriptions and bodies the requests are drawn from *)

T_Bug == << "B", "u", "g" >>    \* "Bug"
T_CRITICAL == << "C", "R", "I", "T", "I", "C", "A", "L", ":", " ", "x" >>    \* "CRITICAL: x"
T_critical == << "a", " ", "c", "r", "i", "t", "i", "c", "a", "l", " ", "b" >>    \* "a critical b"
T_CrItIcAl == << "C", "r", "I", "t", "I", "c", "A", "l" >>    \* "CrItIcAl"
T_URGENTE == << "U", "R", "G", "E", "N", "T", "E" >>    \* "URGENTE"
T_urgente == << "x", " ", "u", "r", "g", "e", "n", "t", "e" >>    \* "x urgente"
T_UrGeNtE == << "U", "r", "G", "e", "N", "t", "E", "!" >>    \* "UrGeNtE!"
T_CRITICA_L == << "C", "R", "I", "T", "I", "C", "A", " ", "L" >>    \* "CRITICA L"
T_RITICAL == << "R", "I", "T", "I", "C", "A", "L", " ", "U", "R", "G", "E", "N", "T" >>    \* "RITICAL URGENT"
T_empty == << >>
T_long == [i \in 1..(TITLE_MAX_LENGTH + 1) |-> "a"]

D_1 == << "d", "1" >>
D_empty == << >>

Body(title, description, is_completed, priority) ==
    [ id |-> Unset(0), title |-> title, description |-> description,
      is_completed |-> is_completed, priority |-> priority ]

\* Path parameters: every id the store can hand out and one it never does.
TicketIds == 1..(MaxId + 1)

\* POST bodies of the general specification.
CreateBodies ==
    { Body(Val(t), Val(D_1), Unset(FALSE), p) :
        t \in {T_Bug, T_CRITICAL}, p \in {Unset(0), Null(0)} }
    \cup { Body(Val(T_empty), Val(D_1), Unset(FALSE), Unset(0)),
           Body(Val(T_Bug), Val(D_1), Unset(FALSE), Val(PRIORITY_MAX + 1)) }

\* PUT bodies of the general specification.
UpdateBodies ==
    { NoBody,
      [NoBody EXCEPT !.is_completed = Val(TRUE)],
      [NoBody EXCEPT !.title = Val(T_urgente)],
      [NoBody EXCEPT !.priority = Val(4)],
      [NoBody EXCEPT !.priority = Null(0)],
      [NoBody EXCEPT !.title = Null(<<>>)],
      [NoBody EXCEPT !.title = Val(T_empty)] }

ListSkips == {Unset(0), Val(-1), Val(1)}
ListLimits == {Unset(0), Val(1), Val(LIMIT_MAX + 1)}

\* POST bodies of the creation scenario: every title with every priority,
\* and bodies that fail validation.
AllTitles ==
    { T_Bug, T_CRITICAL, T_critical, T_CrItIcAl, T_URGENTE, T_urgente,
      T_UrGeNtE, T_CRITICA_L, T_RITICAL }

AllPriorities ==
    {Unset(0), Null(0)} \cup {Val(p) : p \in PRIORITY_MIN..PRIORITY_MAX}

AllCreateBodies ==
    { Body(Val(t), Val(D_1), Unset(FALSE), p) : t \in AllTitles, p \in AllPriorities }
    \cup { Body(Val(T_CRITICAL), Val(D_1), Val(TRUE), Val(2)),
           Body(Val(T_empty), Val(D_1), Unset(FALSE), Val(2)),
           Body(Val(T_long), Val(D_1), Unset(FALSE), Val(2)),
           Body(Null(<<>>), Val(D_1), Unset(FALSE), Val(2)),
           Body(Val(T_URGENTE), Val(D_empty), Unset(FALSE), Val(2)),
           Body(Val(T_critical), Val(D_1), Unset(FALSE), Val(PRIORITY_MIN - 1)),
           Body(Val(T_critical), Val(D_1), Unset(FALSE), Val(PRIORITY_MAX + 1)) }

\* The life-cycle scenario: a create body that names is_completed, update
\* bodies that name is_completed, and an id next to a priority.
LifeIds == 1..MaxLifeId
LifeCreateBodies ==
    { Body(Val(T_Bug), Val(D_1), Val(TRUE), Val(2)),
      Body(Val(T_empty), Val(D_1), Unset(FALSE), Val(2)),
      Body(Val(T_long), Val(D_1), Unset(FALSE), Val(2)),
      Body(Val(T_Bug), Val(D_empty), Unset(FALSE), Val(2)),
      Body(Val(T_Bug), Val(D_1), Unset(FALSE), Val(PRIORITY_MIN - 1)),
      Body(Val(T_Bug), Val(D_1), Unset(FALSE), Val(PRIORITY_MAX + 1)) }
LifeUpdateBodies ==
    { [NoBody EXCEPT !.is_completed = Val(TRUE)],
      [NoBody EXCEPT !.id = Val(MaxLifeId), !.priority = Val(4)],
      [NoBody EXCEPT !.title = Val(T_empty)],
      [NoBody EXCEPT !.title = Val(T_long), !.is_completed = Val(TRUE)],
      [NoBody EXCEPT !.description = Val(D_empty)],
      [NoBody EXCEPT !.priority = Val(PRIORITY_MIN - 1)],
      [NoBody EXCEPT !.priority = Val(PRIORITY_MAX + 1)] }

\* The paging scenario: one body, every offset around the table's size.
PageCreateBodies == { Body(Val(T_Bug), Val(D_1), Unset(FALSE), Unset(0)) }
PageSkips == {Unset(0)} \cup {Val(s) : s \in 0..(MaxPageTickets + 1)}
PageLimits == {Unset(0)} \cup {Val(k) : k \in 1..MaxPageLimit}

\* The concurrent scenario: a ticket created with the default priority, and
\* requests on it that name the priority (a new value, and the value the
\* ticket was created with) and the title, and deletes of it.
ConcCreateBodies == { Body(Val(T_Bug), Val(D_1), Unset(FALSE), Unset(0)) }
ConcOps == {"update", "delete"}
ConcIds == 1..MaxConcTickets
ConcUpdateBodies ==
    { [NoBody EXCEPT !.priority = Val(4)],
      [NoBody EXCEPT !.priority = Val(PRIORITY_DEFAULT)],
      [NoBody EXCEPT !.title = Val(T_urgente)] }

\* The settings scenario: the environments the process may see, and the
\* callers of get_settings.
Envs ==
    [ DATABASE_URL : {"sqlite", "postgresql"},
      SECRET_KEY : {"k1", "k2"},
      ACCESS_TOKEN_EXPIRE_MINUTES : {Unset(0), Val(60)},
      DEBUG_MODE : {Unset(FALSE), Val(TRUE)} ]
Callers == {"database", "dependency", "test"}

\* The long-list scenario: more tickets than the largest page, listed with
\* the parameters omitted, at the largest limit and one above it.
LongListSkips == {Unset(0), Val(1)}
LongListLimits == {Unset(0), Val(LIMIT_MAX), Val(LIMIT_MAX + 1)}

------------------------------------------------------------------------------
(* Specifications *)

NoRequest == Request("none", 0, NoBody, Unset(0), Unset(0))

Init ==
    /\ dialect \in {"sqlite", "postgresql"}
    /\ table = <<>>
    /\ id_seq = 0
    /\ created = <<>>
    /\ req = NoRequest
    /\ resp = Response(0, <<>>, NoDetail)
    /\ answered = {}
    /\ tasks = [t \in Tasks |-> IdleTask]
    /\ config = StartConfig(dialect)
    /\ app = lifespan_startup(CreatedApp)
    /\ BOOKS = <<>>
    /\ books_log = NoBooksLog

CreateTicket ==
    /\ router_create_ticket(CreateBodies, MaxTickets, MaxId)
    /\ UNCHANGED <<answered, tasks, config, app, BOOKS, books_log>>
GetAllTickets ==
    /\ router_get_all_tickets(ListSkips, ListLimits)
    /\ UNCHANGED <<answered, tasks, config, app, BOOKS, books_log>>
GetTicket ==
    /\ router_get_ticket(TicketIds)
    /\ UNCHANGED <<answered, tasks, config, app, BOOKS, books_log>>
UpdateTicket ==
    /\ router_update_ticket(TicketIds, UpdateBodies)
    /\ UNCHANGED <<answered, tasks, config, app, BOOKS, books_log>>
DeleteTicket ==
    /\ router_delete_ticket(TicketIds)
    /\ UNCHANGED <<answered, tasks, config, app, BOOKS, books_log>>

Next ==
    \/ CreateTicket
    \/ GetAllTickets
    \/ GetTicket
    \/ UpdateTicket
    \/ DeleteTicket

\* Any sequence of requests, one at a time.
Spec == Init /\ [][Next]_vars

CreateAnyTicket ==
    /\ router_create_ticket(AllCreateBodies, MaxCreateTickets, MaxId)
    /\ UNCHANGED <<answered, tasks, config, app, BOOKS, books_log>>

\* The creation scenario: creates over every title and priority.
SpecCreate == Init /\ [][CreateAnyTicket]_vars

CreatePageTicket ==
    /\ router_create_ticket(PageCreateBodies, MaxPageTickets, MaxPageTickets)
    /\ UNCHANGED <<answered, tasks, config, app, BOOKS, books_log>>
GetPage ==
    /\ router_get_all_tickets(PageSkips, PageLimits)
    /\ UNCHANGED <<answered, tasks, config, app, BOOKS, books_log>>

NextPaging ==
    \/ CreatePageTicket
    \/ GetPage

\* The paging scenario: tickets created one after another, then listed.
SpecPaging == Init /\ [][NextPaging]_vars

CreateListTicket ==
    /\ router_create_ticket(PageCreateBodies, MaxListTickets, MaxListTickets)
    /\ UNCHANGED <<answered, tasks, config, app, BOOKS, books_log>>
GetLongList ==
    /\ router_get_all_tickets(LongListSkips, LongListLimits)
    /\ UNCHANGED <<answered, tasks, config, app, BOOKS, books_log>>

NextLongList ==
    \/ CreateListTicket
    \/ GetLongList

\* The long-list scenario: tickets created one after another, then listed.
SpecLongList == Init /\ [][NextLongList]_vars

ConcCreate ==
    /\ \A t \in Tasks : tasks[t].pc = "idle"
    /\ router_create_ticket(ConcCreateBodies, MaxConcTickets, MaxConcTickets)
    /\ UNCHANGED <<answered, tasks, config, app, BOOKS, books_log>>
RequestStart == request_start(ConcOps, ConcIds, ConcUpdateBodies)
RequestGet == \E t \in Tasks : request_get(t)
RequestCommitUpdate == \E t \in Tasks : request_commit_update(t)
RequestRefresh == \E t \in Tasks : request_refresh(t)
RequestCommitDelete == \E t \in Tasks : request_commit_delete(t)
RequestEnd == \E t \in Tasks : request_end(t)

NextConcurrent ==
    \/ ConcCreate
    \/ RequestStart
    \/ RequestGet
    \/ RequestCommitUpdate
    \/ RequestRefresh
    \/ RequestCommitDelete
    \/ RequestEnd

\* The concurrent scenario: tickets are created, then requests arrive and
\* run as cooperative tasks, each step up to its next await at a time.
SpecConcurrent == Init /\ [][NextConcurrent]_vars

\* The environment changes (os.environ, the .env file).
SetEnv ==
    \E env \in Envs :
        /\ env # config.env
        /\ config' = [config EXCEPT !.env = env]
        /\ UNCHANGED <<dialect, table, id_seq, created, req, resp, answered, tasks, app, BOOKS, books_log>>

\* A caller calls get_settings().
GetSettings ==
    \E caller \in Callers :
        /\ Len(config.returned) < MaxSettingsCalls
        /\ config' = get_settings(config, caller)
        /\ UNCHANGED <<dialect, table, id_seq, created, req, resp, answered, tasks, app, BOOKS, books_log>>

NextSettings ==
    \/ SetEnv
    \/ GetSettings

\* The settings scenario: calls of get_settings while the environment changes.
SpecSettings == Init /\ [][NextSettings]_vars

\* The create answers of the tickets no update or delete has touched since,
\* after the request just served.
Answered ==
    LET kept == IF req'.op \in {"create", "update", "delete"}
                   /\ resp'.status \in {HTTP_200_OK, HTTP_201_CREATED,
                                        HTTP_204_NO_CONTENT}
                THEN {a \in answered :
                        a.id # (IF req'.op = "create" THEN resp'.body[1].id
                                ELSE req'.id)}
                ELSE answered
    IN  IF req'.op = "create" /\ resp'.status = HTTP_201_CREATED
        THEN kept \cup {resp'.body[1]}
        ELSE kept

LifeCreate ==
    /\ router_create_ticket(LifeCreateBodies, MaxLifeTickets, MaxLifeId)
    /\ answered' = Answered
    /\ UNCHANGED <<tasks, config, app, BOOKS, books_log>>
LifeGet ==
    /\ router_get_ticket(LifeIds)
    /\ answered' = Answered
    /\ UNCHANGED <<tasks, config, app, BOOKS, books_log>>
LifeUpdate ==
    /\ router_update_ticket(LifeIds, LifeUpdateBodies)
    /\ answered' = Answered
    /\ UNCHANGED <<tasks, config, app, BOOKS, books_log>>
LifeDelete ==
    /\ router_delete_ticket(LifeIds)
    /\ answered' = Answered
    /\ UNCHANGED <<tasks, config, app, BOOKS, books_log>>

LifeList ==
    /\ router_get_all_tickets({Unset(0)}, {Unset(0), Val(1)})
    /\ answered' = Answered
    /\ UNCHANGED <<tasks, config, app, BOOKS, books_log>>

NextLife ==
    \/ LifeCreate
    \/ LifeList
    \/ LifeGet
    \/ LifeUpdate
    \/ LifeDelete

\* The life-cycle scenario: several tickets created, read, updated (also
\* with a body that carries an id key) and deleted.
SpecLife == Init /\ [][NextLife]_vars

------------------------------------------------------------------------------
(* Vocabulary of the properties *)

\* The stored ticket with a given id.
RowOf(tbl, ticket_id) ==
    CHOOSE r \in {tbl[i] : i \in DOMAIN tbl} : r.id = ticket_id

LowerOf(c) ==
    IF \E i \in DOMAIN UpperLetters : UpperLetters[i] = c
    THEN LowerLetters[CHOOSE i \in DOMAIN UpperLetters : UpperLetters[i] = c]
    ELSE c

\* The title holds the word at some place, each letter in either case.
ContainsAnyCase(title, word) ==
    \E i \in 0..(Len(title) - Len(word)) :
        \A j \in 1..Len(word) :
            title[i + j] = word[j] \/ title[i + j] = LowerOf(word[j])

\* The last request was a create that passed validation.
ValidCreate == req.op = "create" /\ TicketCreate_validate(req.body)

\* The last create was answered 201 with one ticket, which is stored, and
\* both the answer and the stored row carry priority p.
CreatedWithPriority(p) ==
    /\ resp.status = HTTP_201_CREATED
    /\ Len(resp.body) = 1
    /\ resp.body[1].priority = p
    /\ resp.body[1].id \in Ids(table)
    /\ RowOf(table, resp.body[1].id).priority = p

------------------------------------------------------------------------------
(* Properties *)

\* C1: every stored ticket has a priority that is an integer in 1..5, never
\* null, in every state reachable by valid create, update and delete requests.
C1_PriorityAlwaysInRange ==
    \A i \in DOMAIN table :
        /\ IsVal(table[i].priority)
        /\ table[i].priority.v \in PRIORITY_MIN..PRIORITY_MAX

\* C2: a valid create whose title contains "CRITICAL" in any letter case
\* stores and returns priority 5, whatever priority the request supplied.
C2_CriticalTitleGetsPriority5 ==
    (ValidCreate /\ ContainsAnyCase(req.body.title.v, CRITICAL))
        => CreatedWithPriority(Val(5))

C2_Witness ==
    /\ ValidCreate
    /\ req.body.title = Val(T_critical)
    /\ req.body.priority = Val(2)
    /\ CreatedWithPriority(Val(5))

\* C3: a valid create whose title contains "URGENTE" in any letter case
\* stores and returns priority 5.
C3_UrgenteTitleGetsPriority5 ==
    (ValidCreate /\ ContainsAnyCase(req.body.title.v, URGENTE))
        => CreatedWithPriority(Val(5))

C3_Witness ==
    /\ ValidCreate
    /\ req.body.title = Val(T_UrGeNtE)
    /\ req.body.priority = Val(1)
    /\ CreatedWithPriority(Val(5))

HasEscalationWord(title) ==
    ContainsAnyCase(title, CRITICAL) \/ ContainsAnyCase(title, URGENTE)

\* C5: the escalation rule is applied on create only: an update that sets a
\* title containing "CRITICAL" or "URGENTE" and names no priority leaves the
\* stored priority as it was, and an update that names a priority below 5
\* stores it also on a ticket whose title contains one of the words.
C5_EscalationOnCreateOnly ==
    [][ (req'.op = "update" /\ resp'.status = HTTP_200_OK)
          => LET old == RowOf(table, req'.id)
                 new == RowOf(table', req'.id)
                 body == req'.body
             IN  /\ ( /\ IsVal(body.title)
                      /\ HasEscalationWord(body.title.v)
                      /\ IsUnset(body.priority) )
                        => new.priority = old.priority
                 /\ ( /\ IsVal(body.priority)
                      /\ body.priority.v < PRIORITY_ESCALATED
                      /\ HasEscalationWord(new.title.v) )
                        => new.priority = body.priority
      ]_vars

C5_Witness ==
    /\ req.op = "update"
    /\ resp.status = HTTP_200_OK
    /\ req.body.title = Val(T_urgente)
    /\ IsUnset(req.body.priority)
    /\ RowOf(table, req.id).title = Val(T_urgente)
    /\ RowOf(table, req.id).priority = Val(1)

\* C6: update is a partial merge: for every existing ticket and every update
\* request, each field whose key is present takes the request's value and
\* each field whose key is absent keeps its stored value.
C6_UpdateIsPartialMerge ==
    [][ ( /\ req'.op = "update"
          /\ TicketUpdate_validate(req'.body)
          /\ req'.id \in Ids(table) )
          => /\ req'.id \in Ids(table')
             /\ \A f \in TicketFields :
                  RowOf(table', req'.id)[f] =
                      IF IsUnset(req'.body[f])
                      THEN RowOf(table, req'.id)[f]
                      ELSE req'.body[f]
      ]_vars

NOT_FOUND == << "n", "o", "t", " ", "f", "o", "u", "n", "d" >>

\* C7: in every reachable state a get-by-id for an id no stored ticket has is
\* answered 404 with a detail containing "not found", and a get-by-id for a
\* stored id is answered 200 with that ticket.
C7_GetByIdAnswers ==
    (req.op = "get")
        => IF req.id \in Ids(table)
           THEN /\ resp.status = HTTP_200_OK
                /\ Len(resp.body) = 1
                /\ \A f \in {"id"} \cup TicketFields :
                       resp.body[1][f] = RowOf(table, req.id)[f]
           ELSE /\ resp.status = HTTP_404_NOT_FOUND
                /\ resp.body = <<>>
                /\ str_in(NOT_FOUND, resp.detail)

C7_Witness ==
    /\ req.op = "get"
    /\ table # <<>>
    /\ req.id \notin Ids(table)
    /\ resp.status = HTTP_404_NOT_FOUND

\* C8: after a successful delete of an id that id is not stored and a
\* get-by-id for it is answered 404, and no later get, list, update or delete
\* request brings it back.
C8_DeleteIsPermanent ==
    [][ /\ (req'.op = "delete" /\ resp'.status = HTTP_204_NO_CONTENT)
            => req'.id \notin Ids(table')
        /\ (req'.op \in {"get", "list", "update", "delete"})
            => Ids(table') \subseteq Ids(table)
        /\ (req'.op = "get" /\ req'.id \notin Ids(table))
            => resp'.status = HTTP_404_NOT_FOUND
      ]_vars

\* Under PostgreSQL an id at or below the sequence value that is not stored
\* was handed out and deleted.
C8_Witness ==
    /\ dialect = "postgresql"
    /\ req.op = "get"
    /\ req.id \in 1..id_seq
    /\ req.id \notin Ids(table)
    /\ resp.status = HTTP_404_NOT_FOUND

InCreationOrder == [i \in DOMAIN created |-> TicketRead(RowOf(table, created[i]))]

\* What a list request with these parameters is answered in this state.
Page(skip, limit) ==
    Serialize(HTTP_200_OK, TicketRepository_get_all(table, skip, limit)).body

RECURSIVE Pages(_, _)
\* Pages 1..n of size k, one after the other.
Pages(n, k) ==
    IF n = 0 THEN <<>> ELSE Pages(n - 1, k) \o Page((n - 1) * k, k)

C11_IdUniqueAndStable ==
    [][ /\ \A i, j \in DOMAIN table' : table'[i].id = table'[j].id => i = j
        /\ (req'.op = "update" /\ req'.id \in Ids(table))
             => /\ Ids(table') = Ids(table)
                /\ Len(table') = Len(table)
                /\ resp'.status = HTTP_200_OK => resp'.body[1].id = req'.id
      ]_vars

\* An update whose body carries another stored ticket's id was answered 200
\* while two tickets are stored.
C11_Witness ==
    /\ req.op = "update"
    /\ resp.status = HTTP_200_OK
    /\ IsVal(req.body.id)
    /\ req.body.id.v # req.id
    /\ req.body.id.v \in Ids(table)
    /\ Len(table) = 2
    /\ RowOf(table, req.id).priority = Val(4)

\* The body breaks one of the field constraints: an empty title, a title of
\* more than 200 characters, an empty description, a priority outside 1..5.
ViolatesFieldConstraint(body) ==
    \/ IsVal(body.title) /\ (Len(body.title.v) = 0 \/ Len(body.title.v) > 200)
    \/ IsVal(body.description) /\ Len(body.description.v) = 0
    \/ IsVal(body.priority) /\ (body.priority.v < 1 \/ body.priority.v > 5)

\* C12: a create or update request whose body violates a field constraint is
\* answered 422 before the service runs, and the store (the rows, their
\* order and the id sequence) is left exactly as it was.
C12_InvalidBodyIs422 ==
    [][ (req'.op \in {"create", "update"} /\ ViolatesFieldConstraint(req'.body))
          => /\ resp'.status = HTTP_422_UNPROCESSABLE
             /\ resp'.body = <<>>
             /\ table' = table
             /\ id_seq' = id_seq
      ]_vars

\* An update of a stored ticket with a title of 201 characters was answered
\* 422, and the ticket is as it was created.
C12_Witness ==
    /\ req.op = "update"
    /\ req.body.title = Val(T_long)
    /\ req.id \in Ids(table)
    /\ resp.status = HTTP_422_UNPROCESSABLE
    /\ RowOf(table, req.id).title = Val(T_Bug)
    /\ RowOf(table, req.id).is_completed = Val(FALSE)

\* The page of the creation order that starts after skip tickets and holds
\* at most limit of them.
PageOfCreationOrder(skip, limit) ==
    SubSeq(InCreationOrder, skip + 1, Min2(skip + limit, Len(created)))

\* A list request with omitted parameters is served as skip = 0, limit = 100.
ListDefaultsAre0And100 ==
    ( /\ req.op = "list"
      /\ (IsUnset(req.skip) \/ req.skip.v >= 0)
      /\ (IsUnset(req.limit) \/ req.limit.v \in 1..100) )
        => /\ resp.status = HTTP_200_OK
           /\ resp.body =
                PageOfCreationOrder(
                    IF IsUnset(req.skip) THEN 0 ELSE req.skip.v,
                    IF IsUnset(req.limit) THEN 100 ELSE req.limit.v)

\* C13 as stated: omitted parameters mean skip = 0 and limit = 100, and a
\* list request that asks for a limit greater than 100 is served with status
\* 200 and a page of at most 100 tickets.
C13_LimitAbove100IsServed ==
    /\ ListDefaultsAre0And100
    /\ (req.op = "list" /\ IsVal(req.limit) /\ req.limit.v > 100)
         => /\ resp.status = HTTP_200_OK
            /\ Len(resp.body) <= 100

\* C13 amended: omitted parameters mean skip = 0 and limit = 100, and the
\* limit is bounded by 100: a list request that asks for a limit greater
\* than 100 is answered 422 with no page, and every page served holds at
\* most 100 tickets.
C13_LimitAbove100Is422 ==
    /\ ListDefaultsAre0And100
    /\ (req.op = "list" /\ IsVal(req.limit) /\ req.limit.v > 100)
         => /\ resp.status = HTTP_422_UNPROCESSABLE
            /\ resp.body = <<>>
    /\ (req.op = "list" /\ resp.status = HTTP_200_OK) => Len(resp.body) <= 100

\* 101 tickets are stored and a list request without parameters was
\* answered with the first 100 of them.
C13_Witness ==
    /\ Len(table) = 101
    /\ req.op = "list"
    /\ IsUnset(req.skip)
    /\ IsUnset(req.limit)
    /\ resp.status = HTTP_200_OK
    /\ Len(resp.body) = 100
    /\ resp.body[1].id = created[1]
    /\ resp.body[100].id = created[100]

\* Every request that arrived has ended.
AllEnded == \A t \in Tasks : tasks[t].pc \in {"idle", "done"}

\* Requests t and u are the only two that arrived.
OnlyTwo(t, u) ==
    /\ t # u
    /\ AllEnded
    /\ \A v \in Tasks : tasks[v].pc = "done" <=> v \in {t, u}

\* The fields an update body names.
Named(body) == {f \in TicketFields : ~IsUnset(body[f])}

\* C14: when two update requests on the same existing ticket ran
\* concurrently (each fetched the ticket, merged and committed), neither was
\* rejected for a conflict, and for every field both named the stored value
\* is the value of the request that committed last.
C14_LastCommitWins ==
    \A t, u \in Tasks :
        ( /\ OnlyTwo(t, u)
          /\ tasks[t].op = "update" /\ tasks[u].op = "update"
          /\ tasks[t].id = tasks[u].id
          /\ tasks[t].committed /\ tasks[u].committed
          /\ tasks[t].commit_no < tasks[u].commit_no )
        => /\ tasks[t].resp.status = HTTP_200_OK
           /\ tasks[u].resp.status = HTTP_200_OK
           /\ \A f \in Named(tasks[t].body) \cap Named(tasks[u].body) :
                  RowOf(table, tasks[u].id)[f] = tasks[u].body[f]

\* C15: every request that acquired a session has released it when it has
\* ended, whether it was answered normally, with 404 or 422, or failed with
\* a store error; and no two requests have the same session.
C15_SessionReleased ==
    /\ \A t \in Tasks :
          /\ tasks[t].pc # "idle" => tasks[t].session > 0
          /\ tasks[t].pc \in {"get", "commit", "refresh", "exit"} => tasks[t].open
          /\ tasks[t].pc = "done" => ~tasks[t].open
    /\ \A t, u \in Tasks :
          (t # u /\ tasks[t].session > 0 /\ tasks[u].session > 0)
              => tasks[t].session # tasks[u].session

\* One request ended on a store error and another normally, each with a
\* session of its own, both closed.
C15_Witness ==
    \E t, u \in Tasks :
        /\ tasks[t].pc = "done" /\ tasks[u].pc = "done"
        /\ tasks[t].resp.status = HTTP_500_INTERNAL_SERVER_ERROR
        /\ tasks[u].resp.status = HTTP_204_NO_CONTENT
        /\ tasks[t].session > 0 /\ tasks[u].session > 0
        /\ tasks[t].session # tasks[u].session
        /\ ~tasks[t].open /\ ~tasks[u].open

\* C19: when two concurrent updates on the same ticket name disjoint sets of
\* fields and both commit, the stored ticket at the end carries the new
\* values of both requests.
C19_DisjointUpdatesBothKept ==
    \A t, u \in Tasks :
        ( /\ OnlyTwo(t, u)
          /\ tasks[t].op = "update" /\ tasks[u].op = "update"
          /\ tasks[t].id = tasks[u].id
          /\ tasks[t].committed /\ tasks[u].committed
          /\ Named(tasks[t].body) \cap Named(tasks[u].body) = {} )
        => /\ tasks[t].id \in Ids(table)
           /\ \A f \in Named(tasks[t].body) :
                  RowOf(table, tasks[t].id)[f] = tasks[t].body[f]
           /\ \A f \in Named(tasks[u].body) :
                  RowOf(table, tasks[u].id)[f] = tasks[u].body[f]

\* Both updates fetched the ticket as it was created, before either
\* committed; the stored ticket has the title of one and the priority of
\* the other.
C19_Witness ==
    \E t, u \in Tasks :
        /\ OnlyTwo(t, u)
        /\ tasks[t].op = "update" /\ tasks[u].op = "update"
        /\ tasks[t].body = [NoBody EXCEPT !.title = Val(T_urgente)]
        /\ tasks[u].body = [NoBody EXCEPT !.priority = Val(4)]
        /\ tasks[t].commit_no < tasks[u].commit_no
        /\ tasks[t].loaded = tasks[u].loaded
        /\ tasks[u].loaded[1].title = Val(T_Bug)
        /\ tasks[t].resp.status = HTTP_200_OK
        /\ tasks[u].resp.status = HTTP_200_OK
        /\ RowOf(table, tasks[t].id).title = Val(T_urgente)
        /\ RowOf(table, tasks[t].id).priority = Val(4)

\* C20: when an update has fetched a ticket and a delete of the same id
\* commits before the update commits, then after both requests have ended
\* the store holds no ticket with that id and the update was not answered
\* 200.
C20_NoResurrection ==
    \A t, u \in Tasks :
        ( /\ OnlyTwo(t, u)
          /\ tasks[t].op = "update" /\ tasks[u].op = "delete"
          /\ tasks[t].id = tasks[u].id
          /\ tasks[t].loaded # <<>>
          /\ tasks[u].committed
          /\ tasks[u].commit_no < tasks[t].commit_no )
        => /\ tasks[t].id \notin Ids(table)
           /\ tasks[t].resp.status # HTTP_200_OK
           /\ tasks[t].resp.body = <<>>

\* The update named a new priority, called commit() after the delete had
\* committed, and failed.
C20_Witness ==
    \E t, u \in Tasks :
        /\ OnlyTwo(t, u)
        /\ tasks[t].op = "update" /\ tasks[u].op = "delete"
        /\ tasks[t].id = tasks[u].id
        /\ tasks[t].body = [NoBody EXCEPT !.priority = Val(4)]
        /\ tasks[t].loaded # <<>>
        /\ tasks[u].resp.status = HTTP_204_NO_CONTENT
        /\ tasks[u].commit_no < tasks[t].commit_no
        /\ tasks[t].resp.status = HTTP_500_INTERNAL_SERVER_ERROR
        /\ table = <<>>

\* C16: every ticket is stored and answered with is_completed = false at
\* creation, whatever the create request's body contains, and a stored
\* ticket's is_completed becomes true only through an update request on it
\* that names is_completed.
C16_CompletedOnlyByUpdate ==
    [][ /\ (req'.op = "create" /\ resp'.status = HTTP_201_CREATED)
             => /\ resp'.body[1].is_completed = Val(FALSE)
                /\ RowOf(table', resp'.body[1].id).is_completed = Val(FALSE)
        /\ \A id \in Ids(table') :
              ( /\ RowOf(table', id).is_completed = Val(TRUE)
                /\ ~(id \in Ids(table)
                      /\ RowOf(table, id).is_completed = Val(TRUE)) )
              => /\ req'.op = "update"
                 /\ req'.id = id
                 /\ req'.body.is_completed = Val(TRUE)
      ]_vars

\* A create whose body says "is_completed": true was answered 201 and its
\* ticket is stored not completed, next to a ticket an update completed.
C16_Witness ==
    /\ req.op = "create"
    /\ req.body.is_completed = Val(TRUE)
    /\ resp.status = HTTP_201_CREATED
    /\ Len(table) = 2
    /\ RowOf(table, resp.body[1].id).is_completed = Val(FALSE)
    /\ \E id \in Ids(table) : RowOf(table, id).is_completed = Val(TRUE)

\* C17: a successful create answers a ticket with an assigned id, and a
\* get-by-id for that id, before any update or delete of it, answers 200
\* with the same id, title, description, priority and is_completed.
C17_CreateGetRoundTrip ==
    /\ (req.op = "create" /\ resp.status = HTTP_201_CREATED)
         => /\ resp.body[1].id >= 1
            /\ resp.body[1] \in answered
    /\ \A a \in answered :
          (req.op = "get" /\ req.id = a.id)
              => /\ resp.status = HTTP_200_OK
                 /\ Len(resp.body) = 1
                 /\ \A f \in {"id"} \cup TicketFields : resp.body[1][f] = a[f]

\* A get of the second of two stored tickets answered what its create
\* answered, after the first one was updated.
C17_Witness ==
    /\ req.op = "get"
    /\ resp.status = HTTP_200_OK
    /\ Len(table) = 2
    /\ req.id = table[2].id
    /\ resp.body[1] \in answered
    /\ table[1].id \notin {a.id : a \in answered}
    /\ table[1].priority = Val(4)

\* C18: the configuration is loaded once: the first call of get_settings
\* builds a Settings object from the environment, and every later call, from
\* any caller, returns that same object; once an object is cached no step
\* builds another or reads the environment again.
C18_SettingsLoadedOnce ==
    [][ /\ config'.built <= 1
        /\ \A i \in DOMAIN config'.returned :
              config'.returned[i].settings = config'.returned[1].settings
        /\ (Len(config.returned) = 0 /\ Len(config'.returned) = 1)
             => /\ config'.built = 1
                /\ config'.returned[1].settings = Settings(config.env, 1)
        /\ config.cache # <<>>
             => /\ config'.cache = config.cache
                /\ config'.built = config.built
      ]_vars

\* Three callers got the same object, built from an environment that has
\* changed since.
C18_Witness ==
    /\ Len(config.returned) = 3
    /\ {config.returned[i].caller : i \in 1..3} = Callers
    /\ config.returned[3].settings = config.returned[1].settings
    /\ config.built = 1
    /\ config.env.DATABASE_URL # config.returned[3].settings.DATABASE_URL
    /\ config.env.SECRET_KEY # config.returned[3].settings.SECRET_KEY

(* The process from its start to its end: startup, requests, shutdown *)

InitProcess ==
    /\ dialect \in {"sqlite", "postgresql"}
    /\ table = <<>>
    /\ id_seq = 0
    /\ created = <<>>
    /\ req = NoRequest
    /\ resp = Response(0, <<>>, NoDetail)
    /\ answered = {}
    /\ tasks = [t \in Tasks |-> IdleTask]
    /\ config = StartConfig(dialect)
    /\ app = CreatedApp
    /\ BOOKS = <<>>
    /\ books_log = NoBooksLog

\* The server runs the lifespan up to its yield before it accepts requests.
LifespanStartup ==
    /\ app.phase = "created"
    /\ app' = lifespan_startup(app)
    /\ UNCHANGED <<dialect, table, id_seq, created, req, resp, answered,
                   tasks, config, BOOKS, books_log>>
\* The store cannot be reached: create_db_and_tables raises.
LifespanStartupFailed ==
    /\ app.phase = "created"
    /\ app' = lifespan_startup_failed(app)
    /\ UNCHANGED <<dialect, table, id_seq, created, req, resp, answered,
                   tasks, config, BOOKS, books_log>>
\* The server resumes the lifespan after its yield when it stops serving.
LifespanShutdown ==
    /\ app.phase = "serving"
    /\ app' = lifespan_shutdown(app)
    /\ UNCHANGED <<dialect, table, id_seq, created, req, resp, answered,
                   tasks, config, BOOKS, books_log>>
LifespanCreate ==
    /\ app.phase = "serving"
    /\ router_create_ticket(
           { Body(Val(T_Bug), Val(D_1), Unset(FALSE), Unset(0)),
             Body(Val(T_CRITICAL), Val(D_1), Unset(FALSE), Unset(0)) },
           MaxLifespanTickets, MaxLifespanId)
    /\ UNCHANGED <<answered, tasks, config, app, BOOKS, books_log>>
LifespanGet ==
    /\ app.phase = "serving"
    /\ router_get_ticket(1..MaxLifespanId)
    /\ UNCHANGED <<answered, tasks, config, app, BOOKS, books_log>>
LifespanDelete ==
    /\ app.phase = "serving"
    /\ router_delete_ticket(1..MaxLifespanId)
    /\ UNCHANGED <<answered, tasks, config, app, BOOKS, books_log>>

NextLifespan ==
    \/ LifespanStartup
    \/ LifespanStartupFailed
    \/ LifespanCreate
    \/ LifespanGet
    \/ LifespanDelete
    \/ LifespanShutdown

SpecLifespan == InitProcess /\ [][NextLifespan]_vars

NoQuery == [category |-> Unset(<<>>), author |-> Unset(<<>>)]

\* The paths, query parameters, bodies and titles the calls are drawn
\* from: among the bodies one without a Title and one whose Title is
\* already in the list.
BookInputs ==
    LET Author_One == << "A", "u", "t", "h", "o", "r", " ", "O", "n", "e" >>
        harry_potter == << "h", "a", "r", "r", "y", " ", "p", "o", "t", "t", "e", "r" >>
        TITLE_TWO == << "T", "I", "T", "L", "E", " ", "T", "W", "O" >>
        title_two == << "t", "i", "t", "l", "e", " ", "t", "w", "o" >>
        Nope == << "N", "o", "p", "e" >>
        fiction == << "f", "i", "c", "t", "i", "o", "n" >>
        Author_Six == << "A", "u", "t", "h", "o", "r", " ", "S", "i", "x" >>
    IN  [ paths |->
            { << Seg.api_endpoint >>, << Seg.books >>, << Seg.books, <<>> >>,
              << Seg.books, Seg.byauthor, <<>> >>,
              << Seg.books, Author_One >>, << Seg.books, harry_potter >>,
              << Seg.create >> },
          queries |->
            { NoQuery, [NoQuery EXCEPT !.category = Val(fiction)],
              [NoQuery EXCEPT !.author = Val(Author_One)] },
          new_books |->
            { Book(Unset(<<>>), Val(Author_One), 100, "3.0", Val(fiction)),
              Book(Val(TITLE_TWO), Val(Author_One), 120, "5.0",
                   Val(fiction)) },
          updated_books |->
            { Book(Val(title_two), Val(Author_Six), 201, "4.1", Val(fiction)),
              Book(Val(Nope), Val(Author_Six), 201, "4.1", Val(fiction)),
              Book(Unset(<<>>), Val(Author_Six), 201, "4.1", Val(fiction)) },
          titles |-> { harry_potter, TITLE_TWO, Nope } ]

BooksLog(method, path, query, body, endpoint, a) ==
    [ method |-> method, path |-> path, query |-> query, body |-> body,
      endpoint |-> endpoint, status |-> a.status, kind |-> a.kind,
      answer |-> a.answer, message |-> a.message,
      creates |-> books_log.creates
                  + (IF a.message = Book_created THEN 1 ELSE 0),
      deletes |-> books_log.deletes
                  + (IF method = "DELETE" /\ a.status = HTTP_200_OK
                        /\ a.message # Book_not_found THEN 1 ELSE 0) ]

InitBooks ==
    /\ dialect = "sqlite"
    /\ table = <<>>
    /\ id_seq = 0
    /\ created = <<>>
    /\ req = NoRequest
    /\ resp = Response(0, <<>>, NoDetail)
    /\ answered = {}
    /\ tasks = [t \in Tasks |-> IdleTask]
    /\ config = StartConfig(dialect)
    /\ app = CreatedApp
    /\ BOOKS = BOOKS_initial
    /\ books_log = NoBooksLog

BooksGet ==
    /\ \E path \in BookInputs.paths, query \in BookInputs.queries :
          LET a == books_get(BOOKS, path, query) IN
          /\ BOOKS' = a.books
          /\ books_log' = BooksLog("GET", path, query, <<>>,
                                   get_endpoint(path), a)
    /\ UNCHANGED <<dialect, table, id_seq, created, req, resp, answered,
                   tasks, config, app>>
BooksCreate ==
    /\ books_log.creates < MaxBookCreates
    /\ \E new_book \in BookInputs.new_books :
          LET a == create_book(BOOKS, new_book) IN
          /\ BOOKS' = a.books
          /\ books_log' = BooksLog("POST", << Seg.books, Seg.create >>,
                                   NoQuery, << new_book >>, "create_book", a)
    /\ UNCHANGED <<dialect, table, id_seq, created, req, resp, answered,
                   tasks, config, app>>
BooksUpdate ==
    /\ \E updated_book \in BookInputs.updated_books :
          LET a == update_book(BOOKS, updated_book) IN
          /\ BOOKS' = a.books
          /\ books_log' = BooksLog("PUT", << Seg.books, Seg.update >>,
                                   NoQuery, << updated_book >>,
                                   "update_book", a)
    /\ UNCHANGED <<dialect, table, id_seq, created, req, resp, answered,
                   tasks, config, app>>
BooksDelete ==
    /\ \E title \in BookInputs.titles :
          LET a == delete_book(BOOKS, title) IN
          /\ BOOKS' = a.books
          /\ books_log' = BooksLog("DELETE",
                                   << Seg.books, Seg.delete, title >>,
                                   NoQuery, <<>>, "delete_book", a)
    /\ UNCHANGED <<dialect, table, id_seq, created, req, resp, answered,
                   tasks, config, app>>

NextBooks ==
    \/ BooksGet
    \/ BooksCreate
    \/ BooksUpdate
    \/ BooksDelete

SpecBooks == InitBooks /\ [][NextBooks]_vars

\* Two strings are equal when the case of their letters is ignored.
SameAnyCase(a, b) ==
    /\ Len(a) = Len(b)
    /\ \A i \in 1..Len(a) : LowerOf(a[i]) = LowerOf(b[i])

\* The book has a Title that equals the given one, case ignored.
TitleIs(b, title) == IsVal(b.Title) /\ SameAnyCase(b.Title.v, title)

\* i is the first place in the list of a book with that Title.
FirstTitled(books, i, title) ==
    /\ i \in DOMAIN books
    /\ TitleIs(books[i], title)
    /\ \A j \in 1..(i - 1) : ~TitleIs(books[j], title)

\* C23: a GET of /books/{book_author} with a category query parameter is
\* answered by the author-and-category handler with the list of all books
\* whose Author equals the path value and whose Category equals the query
\* value, case ignored.
C23_AuthorAndCategoryAnswered ==
    ( /\ books_log.method = "GET"
      /\ Len(books_log.path) = 2
      /\ books_log.path[1] = Seg.books
      /\ books_log.path[2] # <<>>
      /\ IsVal(books_log.query.category) )
    => /\ books_log.endpoint = "read_book_by_author_path_by_category_query"
       /\ books_log.status = HTTP_200_OK
       /\ books_log.kind = "list"
       /\ books_log.answer =
             SelectSeq(BOOKS, LAMBDA b :
                 /\ IsVal(b.Author)
                 /\ SameAnyCase(b.Author.v, books_log.path[2])
                 /\ IsVal(b.Category)
                 /\ SameAnyCase(b.Category.v, books_log.query.category.v))

\* C24: delete_book removes the first book whose Title equals the given
\* title, case ignored, and leaves the other books and their order; when no
\* Title matches, BOOKS is unchanged and the answer is 'Book not found';
\* the length of BOOKS is always its initial length plus the creates minus
\* the deletes that found a book.
C24_DeleteRemovesFirstMatch ==
    [][ /\ books_log'.method = "DELETE"
             => LET title == books_log'.path[3] IN
                IF \E i \in DOMAIN BOOKS : TitleIs(BOOKS[i], title)
                THEN \E i \in DOMAIN BOOKS :
                        /\ FirstTitled(BOOKS, i, title)
                        /\ BOOKS' = [j \in 1..(Len(BOOKS) - 1) |->
                                        IF j < i THEN BOOKS[j]
                                        ELSE BOOKS[j + 1]]
                ELSE /\ BOOKS' = BOOKS
                     /\ books_log'.message = Book_not_found
        /\ Len(BOOKS') = Len(BOOKS_initial) + books_log'.creates
                            - books_log'.deletes
      ]_vars

\* C25: update_book replaces, at its index, the first book whose Title
\* equals the Title of the new book, case ignored, and changes no other
\* entry and not the length; when no Title matches, BOOKS is unchanged and
\* the answer is 'Book not found'.
C25_UpdateReplacesFirstMatch ==
    [][ books_log'.method = "PUT"
          => LET nb == books_log'.body[1]
                 found == /\ IsVal(nb.Title)
                          /\ \E i \in DOMAIN BOOKS :
                                TitleIs(BOOKS[i], nb.Title.v)
             IN /\ Len(BOOKS') = Len(BOOKS)
                /\ IF found
                   THEN \E i \in DOMAIN BOOKS :
                           /\ FirstTitled(BOOKS, i, nb.Title.v)
                           /\ BOOKS' = [BOOKS EXCEPT ![i] = nb]
                   ELSE /\ BOOKS' = BOOKS
                        /\ books_log'.message = Book_not_found
      ]_vars

\* The tickets other than the one with the given id, in the order of a list.
Others(tbl, ticket_id) == SelectSeq(tbl, LAMBDA r : r.id # ticket_id)

\* C21: each operation changes at most the ticket it targets: get-by-id and
\* list change nothing; create adds exactly one ticket and leaves the
\* existing ones unchanged; a successful update changes only the ticket with
\* the given id; a successful delete removes exactly that ticket and leaves
\* the others, and their relative order in a list, unchanged; a request
\* answered with an error changes nothing.
C21_OnlyTheTargetChanges ==
    [][ /\ req'.op \in {"get", "list"} => table' = table
        /\ (req'.op = "create" /\ resp'.status = HTTP_201_CREATED)
             => /\ Len(table') = Len(table) + 1
                /\ resp'.body[1].id \notin Ids(table)
                /\ Others(table', resp'.body[1].id) = table
        /\ (req'.op = "update" /\ resp'.status = HTTP_200_OK)
             => /\ Len(table') = Len(table)
                /\ req'.id \in Ids(table')
                /\ \A id \in Ids(table) \ {req'.id} :
                       /\ id \in Ids(table')
                       /\ RowOf(table', id) = RowOf(table, id)
        /\ (req'.op = "delete" /\ resp'.status = HTTP_204_NO_CONTENT)
             => /\ Len(table') = Len(table) - 1
                /\ req'.id \in Ids(table)
                /\ table' = Others(table, req'.id)
        /\ (req'.op # "none" /\ resp'.status >= 400) => table' = table
      ]_vars

\* The first of two stored tickets was deleted; the second is stored as it
\* was updated before.
C21_Witness ==
    /\ req.op = "delete"
    /\ resp.status = HTTP_204_NO_CONTENT
    /\ Len(table) = 1
    /\ table[1].id > req.id
    /\ table[1].is_completed = Val(TRUE)

====
